---- MODULE Spec2Model ----
(***************************************************************************)
(* webxr-eye-paint: the per-room durable blob store (PainterRoom, a        *)
(* Cloudflare Durable Object) and the browser-side SnapshotSync/Painter    *)
(* pair that pushes and polls the two "eye" canvases.                      *)
(*                                                                         *)
(* SpecStore  : one PainterRoom instance driven by arbitrary requests,     *)
(*              storage failures and restarts.                             *)
(* SpecClient : one browser session (pointer events, debounce timers, the  *)
(*              push callback, polls, pulls, the clear button) talking to  *)
(*              the room over a network that delays, reorders and fails,   *)
(*              while another session writes to the same room.             *)
(* SpecBursts : SpecClient with the history of debounce windows, of late   *)
(*              responses and of the outcomes of pulls and clears.         *)
(* SpecRooms  : the Worker routing requests to the PainterRoom of each     *)
(*              room name, with evictions.                                 *)
(* SpecTimers : the session drawing on both eyes with the network down     *)
(*              (pointer events, debounce timers, push callbacks).         *)
(* SpecPolls  : the session left alone (polls and pulls under weak         *)
(*              fairness) while another session writes and requests fail.  *)
(***************************************************************************)
EXTENDS Integers, Sequences, FiniteSets, Bags, TLC

\* ------------------------------------------------------------------ bounds
\* PUT handlers that may be suspended (reading the body, hashing) at once.
MaxInflight == 1
\* Asynchronous operations of the browser session (push callbacks, polls,
\* pulls, clears) that may be under way at once.
MaxOps == 2

\* ------------------------------------------------------------- basic values
\* null / undefined, and a present value x: an optional value is <<>> or <<x>>.
Null == <<>>
Some(x) == <<x>>

Eye == {"left", "right"}
\* The 'eye' query parameter: a key, or anything else (missing, misspelt).
EyeParams == {"left", "right", "none"}
\* Request bodies: the store reads nothing of a body but whether it has one, so
\* the empty body and one other stand for all byte sequences.
Bodies == {<<>>, <<1, 2, 3>>}

\* SHA-256 rendered as lower-case hex: a deterministic, collision-free
\* function of the bytes, of a type of its own (a tag is never a body).
Sha256Hex(data) == [sha256 |-> data]

\* If-None-Match values a request may carry: none, or the tag of some bytes.
InmValues == {Null} \cup {Some(Sha256Hex(b)) : b \in Bodies}

VARIABLES
    eyes,       \* PainterRoom.eyes: the in-memory EyeState of each key
    storage,    \* state.storage's value under 'eyes': Null or Some(record)
    puts,       \* bag of PUT handlers suspended between line 18 and line 36
    watch,      \* history: the key whose requests are followed, any key of Eye
    resp,       \* history: the last response to a request for watch, Null or Some
    hist,       \* history: the last write of watch answered 204, and whether a
                \* write that was not acknowledged was applied to watch since
    lastPut,    \* history: the room's last write, when it is an acknowledged PUT
    repeated    \* history: the acknowledged PUT before lastPut, when lastPut repeats it

VARIABLES
    canvas,     \* Painter.eyes[eye].canvas: the pixels of each eye's canvas
    dirty,      \* Painter.dirty
    drawing,    \* attachPointer's 'drawing' flag of each eye
    etag,       \* SnapshotSync.etag: the last known tag of each key
    timers,     \* SnapshotSync.timers: the last timeout handle of each key
    timeouts,   \* the window's pending timeouts (set by setTimeout, not yet fired)
    ops,        \* bag of asynchronous operations under way (awaiting something)
    ev,         \* history: what the callback of the step just taken did
    bursts      \* history: whether debounce windows, late responses and the
                \* outcomes of pulls and clears are followed

VARIABLES
    rooms,      \* the PAINTER_ROOM namespace: the PainterRoom of every name, as
                \* [eyes, storage] (an instance not yet created is a fresh one)
    routed      \* history: the path, the room parameter, the request and the
                \* response of the Worker's last fetch, if no eviction followed it

storeVars == <<eyes, storage, puts, watch, resp, hist, lastPut, repeated>>
clientVars == <<canvas, dirty, drawing, etag, timers, timeouts, ops, ev, bursts>>
routerVars == <<rooms, routed>>
vars == <<storeVars, clientVars, routerVars>>

\* The pixels of a canvas: the cleared canvas (Painter.clearEye) and a painted one.
Blank == 0
Pix == {Blank, 1}

\* No browser session: the state of Painter and SnapshotSync as constructed,
\* nothing scheduled, nothing under way.
NoSession ==
    /\ canvas = [e \in Eye |-> Blank]
    /\ dirty = [e \in Eye |-> FALSE]
    /\ drawing = [e \in Eye |-> FALSE]
    /\ etag = [e \in Eye |-> Null]
    /\ timers = [e \in Eye |-> Null]
    /\ timeouts = {}
    /\ ops = EmptyBag
    /\ ev = Null
    /\ bursts = FALSE

\* ------------------------------------------------------------- PainterRoom
\* Date.now(): every reading of the clock is positive; its magnitude is read by
\* nothing but the Last-Modified header, so all readings are one value.
DateNow == Len(<<"now">>)

EyeState0 == [bytes |-> Null, etag |-> Null, updatedAt |-> 0]
eyes0 == [e \in Eye |-> EyeState0]

\* const eye = (eyeParam === 'left' || eyeParam === 'right') ? eyeParam : 'left'
eyeOf(eyeParam) == IF eyeParam \in Eye THEN eyeParam ELSE "left"

hashUpperCase(data) == [SHA256 |-> data]
hash(data) == Sha256Hex(data)

\* load(): const saved = await storage.get('eyes'); if (saved) this.eyes = saved
load(es, st) == IF st # Null THEN st[1] ELSE es

\* if (!this.eyes.left.bytes && !this.eyes.right.bytes) await this.load()
loadGuard(es, st) ==
    IF es["left"].bytes = Null /\ es["right"].bytes = Null THEN load(es, st) ELSE es

\* persist(): await storage.put('eyes', this.eyes); ok = FALSE: the put rejects
persist(es, st, ok) == IF ok THEN Some(es) ELSE st

Response(status, body, tag, lastModified) ==
    [status |-> status, body |-> body, ETag |-> tag, LastModified |-> lastModified]

\* getHead with "no bytes" tested by length: an empty body reads as absent.
getHeadEmptyAbsent(s, method, inm) ==
    IF inm # Null /\ s.etag # Null /\ inm = s.etag
    THEN Response(304, Null, s.etag, s.updatedAt)
    ELSE IF method = "HEAD"
    THEN Response(200, Null, s.etag, s.updatedAt)
    ELSE IF s.bytes = Null \/ s.bytes = Some(<<>>)
    THEN Response(204, Null, s.etag, s.updatedAt)
    ELSE Response(200, s.bytes, s.etag, s.updatedAt)

\* getHead answering 304 to any If-None-Match once the key has a tag.
getHeadAnyMatch(s, method, inm) ==
    IF inm # Null /\ s.etag # Null
    THEN Response(304, Null, s.etag, s.updatedAt)
    ELSE IF method = "HEAD"
    THEN Response(200, Null, s.etag, s.updatedAt)
    ELSE IF s.bytes = Null
    THEN Response(204, Null, s.etag, s.updatedAt)
    ELSE Response(200, s.bytes, s.etag, s.updatedAt)

\* The GET/HEAD branch of fetch on EyeState s.
getHead(s, method, inm) ==
    IF inm # Null /\ s.etag # Null /\ inm = s.etag
    THEN Response(304, Null, s.etag, s.updatedAt)
    ELSE IF method = "HEAD"
    THEN Response(200, Null, s.etag, s.updatedAt)
    ELSE IF s.bytes = Null
    THEN Response(204, Null, s.etag, s.updatedAt)
    ELSE Response(200, s.bytes, s.etag, s.updatedAt)

\* putState that leaves the tag out.
putStateNoTag(buf, t) == [bytes |-> Some(buf), etag |-> Null, updatedAt |-> t]

\* this.eyes[eye] = { bytes: buf, etag, updatedAt: Date.now() }
putState(buf, t) == [bytes |-> Some(buf), etag |-> Some(hash(buf)), updatedAt |-> t]

\* deleteState that tags the cleared key as empty content.
deleteStateEmptyTag(t) == [bytes |-> Null, etag |-> Some(hash(<<>>)), updatedAt |-> t]

\* this.eyes[eye] = { bytes: null, etag: null, updatedAt: Date.now() }
deleteState(t) == [bytes |-> Null, etag |-> Null, updatedAt |-> t]

\* assign that appends the body to the bytes the key holds.
assignAppend(es, eye, buf) ==
    [es EXCEPT ![eye] = putState(IF @.bytes = Null THEN buf ELSE @.bytes[1] \o buf, DateNow)]

\* Lines 36 and 42: the assignment to this.eyes[eye].
assign(es, eye, buf) == [es EXCEPT ![eye] = putState(buf, DateNow)]
clear(es, eye) == [es EXCEPT ![eye] = deleteState(DateNow)]

\* The 204 of a PUT carries the tag; an uncaught rejection of persist() is a 500.
putResponse(buf, ok) ==
    IF ok THEN Response(204, Null, Some(hash(buf)), 0) ELSE Response(500, Null, Null, 0)

deleteResponse(ok) ==
    IF ok THEN Response(204, Null, Null, 0) ELSE Response(500, Null, Null, 0)

\* ------------------------------------------------------------------ Worker
\* The 'room' query parameter: missing, empty, or a name.
RoomNames == {"global", "r1"}
RoomParams == {Null, Some("")} \cup {Some(n) : n \in RoomNames}

\* const room = url.searchParams.get('room') || 'global'
roomOfIgnored(roomParam) == "global"
roomOf(roomParam) == IF roomParam = Null \/ roomParam = Some("") THEN "global" ELSE roomParam[1]

\* A PainterRoom as its constructor leaves it, over empty storage.
Instance(es, st) == [eyes |-> es, storage |-> st]
NoRouter ==
    /\ rooms = [n \in RoomNames |-> Instance(eyes0, Null)]
    /\ routed = Null

\* ---------------------------------------------------------------- history
Req(method, eye, inm, buf) == [method |-> method, eye |-> eye, inm |-> inm, buf |-> buf]
\* first: the handler met the instance as its constructor left it.
Answered(rq, rs, es) ==
    IF rq.eye = watch THEN Some([req |-> rq, res |-> rs, first |-> es = eyes0]) ELSE resp

\* Content and tag of every key, without the timestamps.
Strip(es) == [e \in Eye |-> [bytes |-> es[e].bytes, etag |-> es[e].etag]]
StripStored(st) == IF st = Null THEN Null ELSE Some(Strip(st[1]))

NoWrite == [op |-> "none", bytes |-> Null, tag |-> Null, sincePut |-> FALSE, sinceDel |-> FALSE]
Written(e, op, bytes, rs) ==
    IF e # watch THEN hist
    ELSE IF rs.status = 204
    THEN [op |-> op, bytes |-> bytes, tag |-> rs.ETag, sincePut |-> FALSE, sinceDel |-> FALSE]
    ELSE IF op = "PUT" THEN [hist EXCEPT !.sincePut = TRUE]
    ELSE [hist EXCEPT !.sinceDel = TRUE]
PutSeen(e, buf, rs, es, st) ==
    Some([eye |-> e, buf |-> buf, tag |-> rs.ETag, mem |-> Strip(es), stored |-> StripStored(st)])
Repeats(e, buf) == lastPut # Null /\ lastPut[1].eye = e /\ lastPut[1].buf = buf

\* ----------------------------------------------------------------- actions
InitStore ==
    /\ eyes = eyes0
    /\ storage = Null
    /\ puts = EmptyBag
    /\ watch \in Eye
    /\ resp = Null
    /\ hist = NoWrite
    /\ lastPut = Null
    /\ repeated = Null
    /\ NoSession
    /\ NoRouter

\* fetch, method GET or HEAD (lines 15-31).
fetchGetHead(method, eyeParam, inm) ==
    LET eye == eyeOf(eyeParam)
        es == loadGuard(eyes, storage)
    IN  /\ eyes' = es
        /\ resp' = Answered(Req(method, eye, inm, Null), getHead(es[eye], method, inm), eyes)
        /\ UNCHANGED <<storage, puts, watch, hist, lastPut, repeated, clientVars, routerVars>>

\* fetch, method PUT, up to its first await that is not a storage operation
\* (lines 15-18, then req.arrayBuffer() and crypto.subtle.digest are pending).
fetchPutStart(eyeParam, buf) ==
    /\ BagCardinality(puts) < MaxInflight
    /\ eyes' = loadGuard(eyes, storage)
    /\ puts' = puts (+) SetToBag({[eye |-> eyeOf(eyeParam), buf |-> buf]})
    /\ UNCHANGED <<storage, watch, resp, hist, lastPut, repeated, clientVars, routerVars>>

\* fetch, method PUT, from the assignment of line 36 to the response.
fetchPutFinish(p, ok) ==
    LET es == assign(eyes, p.eye, p.buf)
        st == persist(es, storage, ok)
    IN  /\ BagIn(p, puts)
        /\ puts' = puts (-) SetToBag({p})
        /\ eyes' = es
        /\ storage' = st
        /\ resp' = Answered(Req("PUT", p.eye, Null, Some(p.buf)), putResponse(p.buf, ok), eyes)
        /\ hist' = Written(p.eye, "PUT", Some(p.buf), putResponse(p.buf, ok))
        /\ lastPut' = IF ok THEN PutSeen(p.eye, p.buf, putResponse(p.buf, ok), es, st) ELSE Null
        /\ repeated' = IF ok /\ Repeats(p.eye, p.buf) THEN lastPut ELSE Null
        /\ UNCHANGED <<watch, clientVars, routerVars>>

\* fetch, method DELETE (lines 15-18 and 41-45).
fetchDelete(eyeParam, ok) ==
    LET eye == eyeOf(eyeParam)
        es == clear(loadGuard(eyes, storage), eye)
        st == persist(es, storage, ok)
    IN  /\ eyes' = es
        /\ storage' = st
        /\ resp' = Answered(Req("DELETE", eye, Null, Null), deleteResponse(ok), eyes)
        /\ hist' = Written(eye, "DELETE", Null, deleteResponse(ok))
        /\ lastPut' = Null
        /\ repeated' = Null
        /\ UNCHANGED <<puts, watch, clientVars, routerVars>>

\* fetch, any other method (lines 15-18 and 47).
fetchOtherDeletes(eyeParam) == fetchDelete(eyeParam, TRUE)
fetchOther(eyeParam) ==
    /\ eyes' = loadGuard(eyes, storage)
    /\ resp' = Answered(Req("POST", eyeOf(eyeParam), Null, Null),
                        Response(405, Some(<<>>), Null, 0), eyes)
    /\ UNCHANGED <<storage, puts, watch, hist, lastPut, repeated, clientVars, routerVars>>

\* The instance is evicted or crashes: the next request meets a fresh
\* PainterRoom (lines 5-12) over the same storage; suspended handlers are gone.
Crash ==
    /\ eyes' = eyes0
    /\ puts' = EmptyBag
    /\ UNCHANGED <<storage, watch, resp, hist, lastPut, repeated, clientVars, routerVars>>

NextStore ==
    \/ \E m \in {"GET", "HEAD"}, ep \in EyeParams, inm \in InmValues : fetchGetHead(m, ep, inm)
    \/ \E ep \in EyeParams, buf \in Bodies : fetchPutStart(ep, buf)
    \/ \E p \in BagToSet(puts), ok \in BOOLEAN : fetchPutFinish(p, ok)
    \/ \E ep \in EyeParams, ok \in BOOLEAN : fetchDelete(ep, ok)
    \/ \E ep \in EyeParams : fetchOther(ep)
    \/ Crash

SpecStore == InitStore /\ [][NextStore]_vars

\* ------------------------------------------------------------------ router
\* Requests the Worker receives; rq.eye is the 'eye' parameter.
Methods == {"GET", "HEAD", "PUT", "DELETE", "POST"}
WorkerRequests ==
    {Req(m, ep, Null, IF m = "PUT" THEN Some(b) ELSE Null) :
        m \in Methods, ep \in EyeParams, b \in Bodies}
Paths == {"/api/canvas", "/"}

\* PainterRoom.fetch on one instance (lines 14-48), start to response: rooms
\* share no state, so the awaits inside one handler (followed for a single
\* room by fetchPutStart and fetchPutFinish) are not followed here.
instanceFetch(inst, rq, ok) ==
    LET eye == eyeOf(rq.eye)
        es == loadGuard(inst.eyes, inst.storage)
        put == assign(es, eye, rq.buf[1])
        del == clear(es, eye)
    IN  IF rq.method \in {"GET", "HEAD"}
        THEN [inst |-> Instance(es, inst.storage), res |-> getHead(es[eye], rq.method, rq.inm)]
        ELSE IF rq.method = "PUT"
        THEN [inst |-> Instance(put, persist(put, inst.storage, ok)), res |-> putResponse(rq.buf[1], ok)]
        ELSE IF rq.method = "DELETE"
        THEN [inst |-> Instance(del, persist(del, inst.storage, ok)), res |-> deleteResponse(ok)]
        ELSE [inst |-> Instance(es, inst.storage), res |-> Response(405, Some(<<>>), Null, 0)]

\* env.ASSETS.fetch(req): a static file, nothing of the rooms.
assetsFetch(rq) == Response(200, Some(<<>>), Null, 0)

\* The Worker's fetch (part_003 lines 11-20): a request under /api/canvas goes
\* to the PainterRoom that idFromName gives for the room, any other to ASSETS.
workerFetch(path, roomParam, rq, ok) ==
    LET room == roomOf(roomParam)
        out == instanceFetch(rooms[room], rq, ok)
    IN  IF path = "/api/canvas"
        THEN /\ rooms' = [rooms EXCEPT ![room] = out.inst]
             /\ routed' = Some([path |-> path, room |-> roomParam, req |-> rq, res |-> out.res])
             /\ UNCHANGED <<storeVars, clientVars>>
        ELSE /\ routed' = Some([path |-> path, room |-> roomParam, req |-> rq, res |-> assetsFetch(rq)])
             /\ UNCHANGED <<rooms, storeVars, clientVars>>

\* An instance is evicted: the next request to its name meets a fresh
\* PainterRoom over the same storage.
evict(room) ==
    /\ rooms' = [rooms EXCEPT ![room] = Instance(eyes0, @.storage)]
    /\ routed' = Null
    /\ UNCHANGED <<storeVars, clientVars>>

\* storage.put rejecting is followed for one room in SpecStore; here every
\* put succeeds.
InitRooms == InitStore /\ watch = "left"
NextRooms ==
    \/ \E rp \in RoomParams, rq \in WorkerRequests : workerFetch("/api/canvas", rp, rq, TRUE)
    \/ \E path \in Paths \ {"/api/canvas"}, rq \in WorkerRequests : workerFetch(path, Null, rq, TRUE)
    \/ \E n \in RoomNames : evict(n)

SpecRooms == InitRooms /\ [][NextRooms]_vars

\* ------------------------------------------------------------ store claims
Seen == resp # Null
Rq == resp[1].req
Rs == resp[1].res
\* The last write applied to watch was acknowledged, and it was this one.
LastPutAcked == hist.op = "PUT" /\ ~hist.sincePut /\ ~hist.sinceDel
LastDeleteAcked == hist.op = "DELETE" /\ ~hist.sincePut

\* C1 (round trip): a GET of a key after an acknowledged PUT of b, with no PUT or
\* DELETE of the key in between and not made conditional on that very tag, is
\* answered 200 with body b and the ETag the PUT returned, which is hash(b).
C1_RoundTrip ==
    (Seen /\ Rq.method = "GET" /\ LastPutAcked /\ Rq.inm # hist.tag)
        => /\ Rs.status = 200
           /\ Rs.body = hist.bytes
           /\ Rs.ETag = hist.tag
           /\ Rs.ETag = Some(Sha256Hex(hist.bytes[1]))

\* The round trip of the empty byte sequence, read back by a fresh instance.
C1_Witness ==
    /\ Seen /\ Rq.method = "GET" /\ LastPutAcked /\ Rq.inm # hist.tag
    /\ hist.bytes = Some(<<>>) /\ Rs.status = 200 /\ resp[1].first

\* C2 (idempotent put): two consecutive acknowledged PUTs of the same bytes to
\* the same key return the same tag, and leave every key with the same content
\* and tag, in memory and persisted.
C2_IdempotentPut ==
    repeated # Null
        => /\ lastPut # Null
           /\ lastPut[1].tag = repeated[1].tag
           /\ lastPut[1].mem = repeated[1].mem
           /\ lastPut[1].stored = repeated[1].stored

C2_Witness ==
    /\ repeated # Null /\ lastPut # Null
    /\ lastPut[1].buf = <<1, 2, 3>>
    /\ lastPut[1].mem[lastPut[1].eye].bytes = Some(<<1, 2, 3>>)

\* C3 (conditional no-op): after an acknowledged PUT of a key, with no PUT or
\* DELETE of it since, a GET or HEAD carrying that PUT's tag as If-None-Match is
\* answered 304 without a body, and one carrying another tag, or none, is not
\* answered 304.
C3_ConditionalNoOp ==
    (Seen /\ Rq.method \in {"GET", "HEAD"} /\ LastPutAcked)
        => /\ Rq.inm = hist.tag => (Rs.status = 304 /\ Rs.body = Null)
           /\ Rq.inm # hist.tag => Rs.status # 304

C3_Witness ==
    /\ Seen /\ Rq.method = "HEAD" /\ LastPutAcked
    /\ Rq.inm = hist.tag /\ Rs.status = 304

\* C4 (delete clears): after an acknowledged DELETE of a key and until a PUT of
\* it, a GET is answered 204 with no body and no ETag and a HEAD carries no
\* ETag, whatever If-None-Match the request carries.
C4_DeleteClears ==
    (Seen /\ Rq.method \in {"GET", "HEAD"} /\ LastDeleteAcked)
        => /\ Rs.ETag = Null
           /\ Rs.body = Null
           /\ Rq.method = "GET" => Rs.status = 204
           /\ Rs.status # 304

\* A conditional GET of a deleted key that has held bytes, served from storage.
C4_Witness ==
    /\ Seen /\ Rq.method = "GET" /\ LastDeleteAcked
    /\ Rq.inm # Null /\ Rs.status = 204 /\ resp[1].first

\* C5 (replica invariant): in memory and in the persisted copy, a key's tag is
\* null exactly when its content is null, and otherwise is the hash of the content.
Replica(s) ==
    /\ s.etag = Null <=> s.bytes = Null
    /\ s.bytes # Null => s.etag = Some(Sha256Hex(s.bytes[1]))
C5_ReplicaInvariant ==
    /\ \A e \in Eye : Replica(eyes[e])
    /\ storage # Null => \A e \in Eye : Replica(storage[1][e])

\* Memory and storage disagree on a key (a write that was not persisted) and
\* both hold bytes.
C5_Witness ==
    /\ storage # Null
    /\ storage[1][watch].bytes # Null /\ eyes[watch].bytes # Null
    /\ storage[1][watch].bytes # eyes[watch].bytes

\* C6 (durability): when a PUT or DELETE is answered 204 the persisted room
\* holds that write; and the first GET a fresh instance answers returns, for a
\* key, the content of its last acknowledged write (absent when nothing was
\* persisted).
AckPersisted ==
    (Seen /\ Rq.method \in {"PUT", "DELETE"} /\ Rs.status = 204)
        => /\ storage # Null
           /\ storage[1][watch].bytes = Rq.buf
           /\ storage[1][watch].etag = Rs.ETag
ColdGetReturnsAcked ==
    (Seen /\ Rq.method = "GET" /\ resp[1].first /\ Rq.inm = Null)
        => /\ hist.op = "PUT" => (Rs.status = 200 /\ Rs.body = hist.bytes)
           /\ hist.op = "DELETE" => (Rs.status = 204 /\ Rs.body = Null)
           /\ storage = Null => (Rs.status = 204 /\ Rs.body = Null)
C6_Durability == AckPersisted /\ ColdGetReturnsAcked

\* ---------------------------------------------------------------- Painter
\* canvas.toBlob(..., 'image/png') (exportPNG): the PNG signature, then the
\* pixels. The canvas is read when toBlob is called, the blob arrives later.
exportPNG(pix) == <<137, pix>>
\* createImageBitmap(blob): the pixels of a PNG, or a rejection (Null) for
\* bytes that are no image.
createImageBitmap(blob) ==
    IF Len(blob) >= 2 /\ blob[1] = 137 THEN Some(blob[2]) ELSE Null

isDirty(e) == dirty[e]
markSaved(d, e) == [d EXCEPT ![e] = FALSE]
\* Painter.stamp: composites the brush onto the canvas and sets dirty, whether
\* or not a pixel changed.
stampPixels(c, e, pix) == [c EXCEPT ![e] = pix]
stampDirty(d, e) == [d EXCEPT ![e] = TRUE]
\* Painter.clearEye(eye, markDirty).
clearEyeCanvas(c, e) == [c EXCEPT ![e] = Blank]
clearEyeDirty(d, e, markDirty) == IF markDirty THEN [d EXCEPT ![e] = TRUE] ELSE d
\* Painter.drawBitmapToEye(eye, bmp, markDirty).
drawBitmapCanvas(c, e, bmp) == [c EXCEPT ![e] = bmp]
drawBitmapDirty(d, e, markDirty) == [d EXCEPT ![e] = markDirty]

\* ----------------------------------------------------------- SnapshotSync
hashBlob(blob) == Sha256Hex(blob)
\* res.ok
resOk(res) == res.status >= 200 /\ res.status <= 299

\* An asynchronous operation under way. kind: "push" (the timer callback),
\* "check", "pull", "clear" (clearRemote). stage: "hash" (the callback awaits
\* exportPNG and hashBlob), "req" (a request is on its way to the room),
\* "resp" (the room has answered, the response is on its way back).
\* atFire is history: what held of the key when the callback started. late is
\* history: the room has applied a write to the key since it answered this
\* operation's request (the response on its way is older than the room's state).
NoRes == Response(0, Null, Null, 0)
NotFired == [same |-> FALSE, pre |-> FALSE]
Op(kind, e, stage, blob, res, atFire) ==
    [kind |-> kind, eye |-> e, stage |-> stage, blob |-> blob, res |-> res, atFire |-> atFire,
     late |-> FALSE]
\* The room applies a write to key e: the answers to e's HEADs and GETs still
\* on their way are late from now on.
Overtaken(o, e) ==
    IF bursts /\ o.eye = e /\ o.stage = "resp" /\ o.kind \in {"check", "pull"}
    THEN [o EXCEPT !.late = TRUE] ELSE o
Overtake(b, e) == BagOfAll(LAMBDA o : Overtaken(o, e), b)
Begin(o) == ops (+) SetToBag({o})
End(o) == ops (-) SetToBag({o})
Becomes(o, n) == (ops (-) SetToBag({o})) (+) SetToBag({n})
Requests(b) == BagCardinality([o \in {x \in BagToSet(b) : x.stage = "req"} |-> b[o]])
Room == BagCardinality(ops) < MaxOps

\* Bodies another session (same application) puts into the room.
RemoteBodies == {exportPNG(pix) : pix \in Pix}

\* --------------------------------------------------------- session actions
\* The page has loaded: Painter and SnapshotSync are constructed and start()
\* has issued the initial pull (line 248). The session followed is that of
\* the left eye (the code treats both eyes alike); the right eye's canvas is
\* left alone.
Session ==
    /\ NoRouter
    /\ eyes = eyes0
    /\ storage = Null
    /\ puts = EmptyBag
    /\ watch = "left"
    /\ resp = Null
    /\ hist = NoWrite
    /\ lastPut = Null
    /\ repeated = Null
    /\ canvas = [e \in Eye |-> Blank]
    /\ dirty = [e \in Eye |-> FALSE]
    /\ drawing = [e \in Eye |-> FALSE]
    /\ etag = [e \in Eye |-> Null]
    /\ timers = [e \in Eye |-> Null]
    /\ timeouts = {}
    /\ ops = SetToBag({Op("pull", watch, "req", Null, NoRes, NotFired)})
    /\ ev = Null

InitClient == Session /\ bursts = FALSE
InitBursts == Session /\ bursts = TRUE

history == <<puts, watch, resp, hist, lastPut, repeated, bursts, routerVars>>
roomVars == <<eyes, storage>>

\* pointerdown (lines 177-180): painter.pointerDown stamps once.
onDown(e, pix) ==
    /\ drawing' = [drawing EXCEPT ![e] = TRUE]
    /\ canvas' = stampPixels(canvas, e, pix)
    /\ dirty' = stampDirty(dirty, e)
    /\ ev' = Null
    /\ UNCHANGED <<etag, timers, timeouts, ops, roomVars, history>>

\* pointermove (lines 181-184): painter.pointerMove stamps along the segment.
onMove(e, pix) ==
    /\ drawing[e]
    /\ canvas' = stampPixels(canvas, e, pix)
    /\ dirty' = stampDirty(dirty, e)
    /\ ev' = Null
    /\ UNCHANGED <<drawing, etag, timers, timeouts, ops, roomVars, history>>

\* The handle setTimeout returns: one no pending timeout has and no key holds.
newHandle(used) ==
    CHOOSE i \in 1..(Cardinality(used) + 1) : i \notin used /\ \A j \in 1..(i - 1) : j \in used

\* window.clearTimeout(this.timers[eye]) when the handle is not null (line 253).
clearTimeoutNever(pending, handle) == pending
clearTimeout(pending, handle) ==
    IF handle # Null THEN {t \in pending : t.id # handle[1]} ELSE pending

\* The key is dirty and the hash of its content differs from the last known tag.
Unsaved(e) == isDirty(e) /\ Some(hashBlob(exportPNG(canvas[e]))) # etag[e]

\* SnapshotSync.scheduleSave (lines 252-254 and 265): cancel, then arm. Where
\* debounce windows are followed the timeout carries history: the canvas at
\* this call (snap), and whether the key was Unsaved at this call and at every
\* earlier call of the window (pre).
scheduleSave(e) ==
    LET kept == clearTimeout(timeouts, timers[e])
        open == timeouts \ kept
        used == {t.id : t \in kept} \cup {timers[x][1] : x \in {y \in Eye \ {e} : timers[y] # Null}}
        id == newHandle(used)
        pre == bursts /\ Unsaved(e) /\ \A t \in open : t.pre
    IN  /\ timers' = [timers EXCEPT ![e] = Some(id)]
        /\ timeouts' = kept \cup {[id |-> id, eye |-> e, snap |-> IF bursts THEN canvas[e] ELSE Blank, pre |-> pre]}

\* pointerup / pointercancel (lines 185-190).
onUpCancel(e) ==
    /\ drawing[e]
    /\ drawing' = [drawing EXCEPT ![e] = FALSE]
    /\ scheduleSave(e)
    /\ ev' = Null
    /\ UNCHANGED <<canvas, dirty, etag, ops, roomVars, history>>

\* The timer callback up to its first await (lines 254-256): return if the key
\* is not dirty, else call exportPNG, which reads the canvas now.
timerFire(t) ==
    LET e == t.eye
        blob == exportPNG(canvas[e])
        fired == [same |-> Some(hashBlob(blob)) = etag[e], pre |-> t.pre]
    IN  /\ t \in timeouts
        /\ timeouts' = timeouts \ {t}
        /\ IF isDirty(e)
           THEN /\ Room
                /\ ops' = Begin(Op("push", e, "hash", blob, NoRes, fired))
           ELSE ops' = ops
        /\ ev' = IF bursts
                 THEN Some([type |-> "fire", eye |-> e, pre |-> t.pre, snap |-> t.snap,
                            exports |-> isDirty(e), blob |-> blob])
                 ELSE Null
        /\ UNCHANGED <<canvas, dirty, drawing, etag, timers, roomVars, history>>

\* Line 258: the hash of the exported blob against the tag known now.
suppressNever(tag, known) == FALSE
suppress(tag, known) == Some(tag) = known

\* The callback once exportPNG and hashBlob have resolved (lines 257-259):
\* mark saved and return, or send the PUT.
pushCompare(o) ==
    LET e == o.eye
        sent == Op("push", e, "req", o.blob, NoRes, NotFired)
    IN  /\ BagIn(o, ops) /\ o.kind = "push" /\ o.stage = "hash"
        /\ IF suppress(hashBlob(o.blob), etag[e])
           THEN /\ dirty' = markSaved(dirty, e)
                /\ ops' = End(o)
           ELSE /\ dirty' = dirty
                /\ ops' = Becomes(o, sent)
        /\ ev' = Some([type |-> "compare", eye |-> e,
                       same |-> Some(hashBlob(o.blob)) = etag[e],
                       sameAtFire |-> o.atFire.same, pre |-> o.atFire.pre,
                       sent |-> Requests(ops') > Requests(ops), known |-> etag[e]])
        /\ UNCHANGED <<canvas, drawing, etag, timers, timeouts, roomVars, history>>

\* The PUT's response has arrived (lines 259-264).
pushResponse(o) ==
    LET e == o.eye
        newTag == o.res.ETag
    IN  /\ BagIn(o, ops) /\ o.kind = "push" /\ o.stage = "resp"
        /\ ops' = End(o)
        /\ IF resOk(o.res)
           THEN /\ etag' = [etag EXCEPT ![e] = IF newTag # Null THEN newTag ELSE Some(hashBlob(o.blob))]
                /\ dirty' = markSaved(dirty, e)
           ELSE /\ etag' = etag
                /\ dirty' = dirty
        /\ ev' = IF resOk(o.res)
                 THEN Some([type |-> "pushed", eye |-> e, tag |-> newTag, blob |-> o.blob])
                 ELSE Some([type |-> "failed", eye |-> e, known |-> etag[e]])
        /\ UNCHANGED <<canvas, drawing, timers, timeouts, roomVars, history>>

\* fetch rejects (no connection, or the response is lost): the PUT's promise
\* rejects and the callback ends at line 259.
pushRejected(o) ==
    /\ BagIn(o, ops) /\ o.kind = "push" /\ o.stage \in {"req", "resp"}
    /\ ops' = End(o)
    /\ ev' = Some([type |-> "failed", eye |-> o.eye, known |-> etag[o.eye]])
    /\ UNCHANGED <<canvas, dirty, drawing, etag, timers, timeouts, roomVars, history>>

\* The room handles the session's PUT (PainterRoom.fetch, lines 15-18, 33-38).
\* Here storage.put succeeds; its failures are followed in SpecStore, and a
\* request that fails on the server side is roomUnavailable's.
roomPut(o) ==
    LET es == assign(loadGuard(eyes, storage), o.eye, o.blob)
    IN  /\ BagIn(o, ops) /\ o.kind = "push" /\ o.stage = "req"
        /\ eyes' = es
        /\ storage' = persist(es, storage, TRUE)
        /\ ops' = Overtake(Becomes(o, [o EXCEPT !.stage = "resp", !.res = putResponse(o.blob, TRUE)]), o.eye)
        /\ ev' = Null
        /\ UNCHANGED <<canvas, dirty, drawing, etag, timers, timeouts, history>>

\* The room handles the session's HEAD or GET (lines 15-31); neither carries
\* If-None-Match (lines 274 and 284).
roomGetHead(o) ==
    LET es == loadGuard(eyes, storage)
        method == IF o.kind = "check" THEN "HEAD" ELSE "GET"
    IN  /\ BagIn(o, ops) /\ o.kind \in {"check", "pull"} /\ o.stage = "req"
        /\ eyes' = es
        /\ ops' = Becomes(o, [o EXCEPT !.stage = "resp", !.res = getHead(es[o.eye], method, Null)])
        /\ ev' = Null
        /\ UNCHANGED <<storage, canvas, dirty, drawing, etag, timers, timeouts, history>>

\* The room handles the session's DELETE (lines 15-18, 41-45).
roomDelete(o) ==
    LET es == clear(loadGuard(eyes, storage), o.eye)
    IN  /\ BagIn(o, ops) /\ o.kind = "clear" /\ o.stage = "req"
        /\ eyes' = es
        /\ storage' = persist(es, storage, TRUE)
        /\ ops' = Overtake(Becomes(o, [o EXCEPT !.stage = "resp", !.res = deleteResponse(TRUE)]), o.eye)
        /\ ev' = Null
        /\ UNCHANGED <<canvas, dirty, drawing, etag, timers, timeouts, history>>

\* The request does not reach PainterRoom.fetch (the stub's fetch fails, the
\* instance is overloaded): it is answered with a server error and the room
\* is as it was.
roomUnavailable(o) ==
    /\ BagIn(o, ops) /\ o.stage = "req"
    /\ ops' = Becomes(o, [o EXCEPT !.stage = "resp", !.res = Response(503, Null, Null, 0)])
    /\ ev' = Null
    /\ UNCHANGED <<canvas, dirty, drawing, etag, timers, timeouts, roomVars, history>>

\* Another session's push or clear, handled and stored by the room.
otherPut(e, buf) ==
    LET es == assign(loadGuard(eyes, storage), e, buf)
    IN  /\ eyes' = es
        /\ storage' = persist(es, storage, TRUE)
        /\ ops' = Overtake(ops, e)
        /\ ev' = Null
        /\ UNCHANGED <<canvas, dirty, drawing, etag, timers, timeouts, history>>

otherDelete(e) ==
    LET es == clear(loadGuard(eyes, storage), e)
    IN  /\ eyes' = es
        /\ storage' = persist(es, storage, TRUE)
        /\ ops' = Overtake(ops, e)
        /\ ev' = Null
        /\ UNCHANGED <<canvas, dirty, drawing, etag, timers, timeouts, history>>

\* A poll tick (lines 245-246, 274): check sends its HEAD.
check(e) ==
    /\ Room
    /\ ops' = Begin(Op("check", e, "req", Null, NoRes, NotFired))
    /\ ev' = Null
    /\ UNCHANGED <<canvas, dirty, drawing, etag, timers, timeouts, roomVars, history>>

\* Line 277: remote && remote !== this.etag[eye].
changedOrSame(remote, e) == remote # Null
changedWhileIdle(remote, e) ==
    /\ remote # Null /\ remote # etag[e]
    /\ \A t \in timeouts : t.eye # e
    /\ \A x \in BagToSet(ops) : ~(x.kind = "push" /\ x.eye = e)
changed(remote, e) == remote # Null /\ remote # etag[e]

\* The HEAD's response has arrived (lines 275-279): return, or set the tag to
\* the remote one and start the pull.
checkResponse(o) ==
    LET e == o.eye
        remote == o.res.ETag
    IN  /\ BagIn(o, ops) /\ o.kind = "check" /\ o.stage = "resp"
        /\ IF resOk(o.res) /\ changed(remote, e)
           THEN /\ etag' = [etag EXCEPT ![e] = remote]
                /\ ops' = Becomes(o, Op("pull", e, "req", Null, NoRes, NotFired))
           ELSE /\ etag' = etag
                /\ ops' = End(o)
        /\ ev' = Some([type |-> "checked", eye |-> e, ok |-> resOk(o.res), remote |-> remote,
                       gets |-> Requests(ops') > Requests(ops)])
        /\ UNCHANGED <<canvas, dirty, drawing, timers, timeouts, roomVars, history>>

\* The GET's response has arrived and its body is decoded (lines 285-293).
pullResponse(o) ==
    LET e == o.eye
        bmp == IF o.res.status = 200 THEN createImageBitmap(o.res.body[1]) ELSE Null
    IN  /\ BagIn(o, ops) /\ o.kind = "pull" /\ o.stage = "resp"
        /\ ops' = End(o)
        /\ IF o.res.status = 200 /\ bmp # Null
           THEN /\ canvas' = drawBitmapCanvas(canvas, e, bmp[1])
                /\ dirty' = drawBitmapDirty(dirty, e, FALSE)
                /\ etag' = [etag EXCEPT ![e] = o.res.ETag]
           ELSE IF o.res.status = 204
           THEN /\ canvas' = clearEyeCanvas(canvas, e)
                /\ dirty' = clearEyeDirty(dirty, e, FALSE)
                /\ etag' = [etag EXCEPT ![e] = Null]
           ELSE UNCHANGED <<canvas, dirty, etag>>
        /\ ev' = IF bursts
                 THEN Some([type |-> "pulled", eye |-> e, late |-> o.late, tag |-> o.res.ETag,
                            known |-> etag[e], had |-> canvas[e], wasDirty |-> dirty[e],
                            drawn |-> (o.res.status = 200 /\ bmp # Null) \/ o.res.status = 204])
                 ELSE Null
        /\ UNCHANGED <<drawing, timers, timeouts, roomVars, history>>

\* The clear button (lines 214-221, 268-269): clear the canvas, send the DELETE.
clearClick(e) ==
    /\ Room
    /\ canvas' = clearEyeCanvas(canvas, e)
    /\ dirty' = clearEyeDirty(dirty, e, TRUE)
    /\ ops' = Begin(Op("clear", e, "req", Null, NoRes, NotFired))
    /\ ev' = Null
    /\ UNCHANGED <<drawing, etag, timers, timeouts, roomVars, history>>

\* The DELETE's response has arrived, whatever its status (line 270).
clearResponse(o) ==
    /\ BagIn(o, ops) /\ o.kind = "clear" /\ o.stage = "resp"
    /\ ops' = End(o)
    /\ etag' = [etag EXCEPT ![o.eye] = Null]
    /\ ev' = IF bursts THEN Some([type |-> "cleared", eye |-> o.eye, status |-> o.res.status]) ELSE Null
    /\ UNCHANGED <<canvas, dirty, drawing, timers, timeouts, roomVars, history>>

\* fetch rejects in check, pull or clearRemote: the promise rejects (caught at
\* lines 245-249, unhandled at 216/220) and nothing after the await runs.
fetchRejected(o) ==
    /\ BagIn(o, ops) /\ o.kind \in {"check", "pull", "clear"} /\ o.stage \in {"req", "resp"}
    /\ ops' = End(o)
    /\ ev' = IF bursts /\ o.kind = "clear"
             THEN Some([type |-> "cleared", eye |-> o.eye, status |-> 0]) ELSE Null
    /\ UNCHANGED <<canvas, dirty, drawing, etag, timers, timeouts, roomVars, history>>

NextClient ==
    \/ \E pix \in Pix : onDown(watch, pix)
    \/ \E pix \in Pix : onMove(watch, pix)
    \/ onUpCancel(watch)
    \/ \E t \in timeouts : timerFire(t)
    \/ \E o \in BagToSet(ops) : pushCompare(o)
    \/ \E o \in BagToSet(ops) : pushResponse(o)
    \/ \E o \in BagToSet(ops) : pushRejected(o)
    \/ \E o \in BagToSet(ops) : roomPut(o)
    \/ \E o \in BagToSet(ops) : roomGetHead(o)
    \/ \E o \in BagToSet(ops) : roomDelete(o)
    \/ \E o \in BagToSet(ops) : roomUnavailable(o)
    \/ \E buf \in RemoteBodies : otherPut(watch, buf)
    \/ otherDelete(watch)
    \/ check(watch)
    \/ \E o \in BagToSet(ops) : checkResponse(o)
    \/ \E o \in BagToSet(ops) : pullResponse(o)
    \/ clearClick(watch)
    \/ \E o \in BagToSet(ops) : clearResponse(o)
    \/ \E o \in BagToSet(ops) : fetchRejected(o)

SpecClient == InitClient /\ [][NextClient]_vars
SpecBursts == InitBursts /\ [][NextClient]_vars

\* The session drawing on both eyes while the network is down: pointer
\* events, timers and push callbacks of either key, every fetch rejecting.
NextTimers ==
    \/ \E e \in Eye, pix \in Pix : onDown(e, pix)
    \/ \E e \in Eye, pix \in Pix : onMove(e, pix)
    \/ \E e \in Eye : onUpCancel(e)
    \/ \E t \in timeouts : timerFire(t)
    \/ \E o \in BagToSet(ops) : pushCompare(o)
    \/ \E o \in BagToSet(ops) : pushRejected(o)
    \/ \E o \in BagToSet(ops) : fetchRejected(o)

SpecTimers == InitClient /\ [][NextTimers]_vars

\* The session left alone by its user: polls and pulls, while another session
\* writes to the room and requests fail. The interval of line 245 keeps
\* firing, the room answers every request that reaches it and every response
\* that arrives is handled: weak fairness of those steps.
NextPolls ==
    \/ \E buf \in RemoteBodies : otherPut(watch, buf)
    \/ otherDelete(watch)
    \/ check(watch)
    \/ \E o \in BagToSet(ops) : roomGetHead(o)
    \/ \E o \in BagToSet(ops) : roomUnavailable(o)
    \/ \E o \in BagToSet(ops) : checkResponse(o)
    \/ \E o \in BagToSet(ops) : pullResponse(o)
    \/ \E o \in BagToSet(ops) : fetchRejected(o)

SpecPolls ==
    /\ InitClient /\ [][NextPolls]_vars
    /\ WF_vars(check(watch))
    /\ WF_vars(\E o \in BagToSet(ops) : roomGetHead(o))
    /\ WF_vars(\E o \in BagToSet(ops) : checkResponse(o))
    /\ WF_vars(\E o \in BagToSet(ops) : pullResponse(o))

\* ---------------------------------------------------------- session claims
Did(type) == ev # Null /\ ev[1].type = type
\* Push callbacks of a key under way: exporting, hashing, or awaiting the PUT.
Pushing(e) == BagCardinality([o \in {x \in BagToSet(ops) : x.kind = "push" /\ x.eye = e} |-> ops[o]])

\* C7 (push suppression), as the code has it: when the callback of a timer
\* that fired on a dirty key compares the hash of the bytes exported at the
\* firing with lastKnownTag (after export and hashing have completed) and finds
\* them equal, it sends no request, the key is clean and lastKnownTag is what
\* it was.
C7_Suppression ==
    (Did("compare") /\ ev[1].same) =>
        /\ ~ev[1].sent
        /\ ~dirty[ev[1].eye]
        /\ etag[ev[1].eye] = ev[1].known

C7_Witness ==
    /\ Did("compare") /\ ev[1].same /\ ~ev[1].sent
    /\ ev[1].known # Null
    /\ ~dirty[ev[1].eye]

\* C7 as stated: when the timer fires while the key is dirty and the hash of
\* the current local bytes equals lastKnownTag, that firing sends no request,
\* the key is marked clean and lastKnownTag is left as it is.
C7_SuppressionAtFire ==
    (Did("compare") /\ ev[1].sameAtFire) =>
        /\ ~ev[1].sent
        /\ ~dirty[ev[1].eye]
        /\ etag[ev[1].eye] = ev[1].known

\* C8 (debounce coalescing): the calls of scheduleSave of one debounce window,
\* made on a dirty key whose content hash differs from lastKnownTag, produce one
\* PUT: the window's timer callback exports the canvas as it was at the last call
\* and sends it.
C8_DebounceCoalescing ==
    /\ (Did("fire") /\ ev[1].pre) => (ev[1].exports /\ ev[1].blob = exportPNG(ev[1].snap))
    /\ (Did("compare") /\ ev[1].pre) => ev[1].sent

\* C9 (a failed push is not dropped): when the PUT sent by the timer callback
\* has failed (a response that is not 2xx, or no response), the key is dirty
\* and lastKnownTag is what it was, so that the next timer callback sends the
\* content again.
C9_FailedPushNotDropped ==
    Did("failed") => (dirty[ev[1].eye] /\ etag[ev[1].eye] = ev[1].known)

\* C10 (per-key push serialization): at most one push of a key is under way
\* (exporting, hashing, or its PUT not yet completed) in one session.
C10_PushSerialization == \A e \in Eye : Pushing(e) <= 1

\* C11 (stale responses are discarded): when the response of a pull arrives
\* that the room answered before it applied a later write of the key, and the
\* client's lastKnownTag is the tag of the room's present content and not the
\* response's, the painter is not called and lastKnownTag is left as it is.
C11_StaleDiscarded ==
    (/\ Did("pulled") /\ ev[1].late
     /\ ev[1].known # Null /\ ev[1].known = eyes[ev[1].eye].etag
     /\ ev[1].tag # ev[1].known)
        => (~ev[1].drawn /\ etag[ev[1].eye] = ev[1].known /\ canvas[ev[1].eye] = ev[1].had)

\* C12 (remote deletion propagates through polling): when a poll's HEAD is
\* answered without a tag while lastKnownTag is not null (and the room holds
\* nothing for the key), the eye's canvas is cleared and lastKnownTag is reset
\* to null.
C12_RemoteDeletionPropagates ==
    [][(/\ Did("checked")' /\ ev'[1].ok /\ ev'[1].remote = Null
        /\ etag[ev'[1].eye] # Null /\ eyes[ev'[1].eye].etag = Null)
           => (canvas'[ev'[1].eye] = Blank /\ etag'[ev'[1].eye] = Null)]_vars

\* C13 (clearRemote): once clearRemote has finished, whether the DELETE was
\* answered 2xx, answered otherwise, or the request failed (status 0 here),
\* lastKnownTag of the key is null.
C13_ClearResetsTag ==
    Did("cleared") => etag[ev[1].eye] = Null

\* A timer is armed for the eye.
Armed(e) == \E t \in timeouts : t.eye = e

\* C14 (race policy): a pull whose response arrives while the eye is dirty and
\* its debounce timer is armed or a push of it is in flight neither changes the
\* canvas nor clears the dirty flag.
C14_RacePolicy ==
    (Did("pulled") /\ ev[1].wasDirty /\ (Armed(ev[1].eye) \/ Pushing(ev[1].eye) > 0))
        => (canvas[ev[1].eye] = ev[1].had /\ dirty[ev[1].eye])

\* C17 (a successful push updates the cache): when the PUT sent by a timer's
\* callback is answered 2xx, lastKnownTag of the key is the tag the room
\* returned, the key is clean, and that tag is the client's own hash of the
\* bytes it sent, so that the comparison of line 258 on the same bytes
\* suppresses the PUT.
C17_PushUpdatesCache ==
    Did("pushed") =>
        /\ ev[1].tag # Null /\ etag[ev[1].eye] = ev[1].tag
        /\ ~isDirty(ev[1].eye)
        /\ ev[1].tag = Some(hashBlob(ev[1].blob))
        /\ suppress(hashBlob(ev[1].blob), etag[ev[1].eye])
C17_Witness ==
    Did("pushed") /\ etag[ev[1].eye] = Some(hashBlob(exportPNG(1))) /\ canvas[ev[1].eye] = 1

\* C18 (poll pull): lastKnownTag is updated only by a successful pull or push,
\* so the step that handles a poll's HEAD response leaves it as it was (and a
\* GET that fails afterwards finds the previous value still there).
C18_TagOnlyOnSuccess ==
    [][Did("checked")' => etag' = etag]_vars

\* C19 (no redundant pull): when a poll's HEAD is answered with a tag equal to
\* lastKnownTag, no GET is sent, the painter is not called (canvas and dirty
\* flag are as they were), and lastKnownTag is unchanged.
C19_NoRedundantPull ==
    [][(/\ Did("checked")' /\ ev'[1].ok
        /\ ev'[1].remote # Null /\ ev'[1].remote = etag[ev'[1].eye])
           => (/\ ~ev'[1].gets /\ Requests(ops') = Requests(ops)
               /\ UNCHANGED <<canvas, dirty, etag>>)]_vars
C19_Witness ==
    /\ Did("checked") /\ ev[1].ok /\ ~ev[1].gets
    /\ ev[1].remote # Null /\ ev[1].remote = etag[ev[1].eye]

\* C20 (polling is independent of push state): when a poll's HEAD is answered
\* with a tag that is not null and differs from lastKnownTag, the GET is sent,
\* whether or not the key's timer is armed or a push of it is in flight.
C20_PollIndependentOfPush ==
    [][(/\ Did("checked")' /\ ev'[1].ok
        /\ ev'[1].remote # Null /\ ev'[1].remote # etag[ev'[1].eye])
           => (ev'[1].gets /\ \E o \in BagToSet(ops') : o.kind = "pull" /\ o.stage = "req")]_vars
C20_Witness ==
    /\ Did("checked") /\ ev[1].gets
    /\ isDirty(ev[1].eye) /\ Pushing(ev[1].eye) > 0

\* What the room serves: its memory as a handler finds it after line 18.
Served(es, st) == Strip(loadGuard(es, st))

\* C16 (other methods), as the code has it: a request with a method other than
\* GET, HEAD, PUT or DELETE is answered 405 and leaves unchanged the persisted
\* state and the content and tag the room serves for both keys; of the memory
\* it changes nothing but what the load of line 18 brings from storage.
C16_MethodNotAllowedServed ==
    [][\A ep \in EyeParams : fetchOther(ep) =>
          /\ eyeOf(ep) = watch => (resp' # Null /\ resp'[1].res.status = 405)
          /\ storage' = storage
          /\ Served(eyes', storage') = Served(eyes, storage)
          /\ eyes' \in {eyes, load(eyes, storage)}]_vars
C16_Witness ==
    /\ Seen /\ Rq.method = "POST" /\ Rs.status = 405 /\ ~resp[1].first
    /\ eyes[watch].bytes # Null /\ storage # Null
\* C16 as stated: the 405 leaves the content and tag of both keys unchanged,
\* in memory and persisted.
C16_MethodNotAllowed ==
    [][\A ep \in EyeParams : fetchOther(ep) =>
          /\ Strip(eyes') = Strip(eyes)
          /\ StripStored(storage') = StripStored(storage)]_vars

\* The instance a request names: 'global' when it has no room parameter.
Named(roomParam) == IF roomParam = Null THEN "global" ELSE roomParam[1]
\* The Worker has just handled a request for a room, named or missing.
Routed ==
    /\ routed # Null /\ routed[1].path = "/api/canvas"
    /\ routed[1].room # Some("")

\* C15 (room isolation): a request under /api/canvas with a room name, or with
\* no room parameter, is handled by the instance of that name, or of 'global':
\* the response is that instance's, the instance takes the request's effect,
\* and a PUT or DELETE (as any request) leaves the content, tag and persisted
\* state of every key of every other room unchanged.
C15_RoomIsolation ==
    [][Routed' =>
          LET n == Named(routed'[1].room)
              out == instanceFetch(rooms[n], routed'[1].req, TRUE)
          IN  /\ routed'[1].res = out.res
              /\ rooms'[n] = out.inst
              /\ \A m \in RoomNames \ {n} : rooms'[m] = rooms[m]]_vars
C15_Witness ==
    /\ Routed /\ routed[1].room = Some("r1") /\ routed[1].req.method = "PUT"
    /\ routed[1].res.status = 204
    /\ rooms["r1"].eyes["left"].bytes = Some(<<1, 2, 3>>)
    /\ rooms["r1"].storage # Null /\ rooms["r1"].storage[1]["left"].bytes = Some(<<1, 2, 3>>)
    /\ rooms["global"].eyes["left"].bytes = Some(<<>>)
    /\ rooms["global"].storage # Null /\ rooms["global"].storage[1]["left"].bytes = Some(<<>>)

\* The load of line 18 is about to replace content or tag of the memory by
\* those of storage: the next request's handler does it before anything else.
LoadReplaces == Strip(loadGuard(eyes, storage)) # Strip(eyes)

\* C21 (per-key linearizability): the memory of a room is never replaced by an
\* older state read from storage: when the load of line 18 replaces it, no
\* write had been applied to it (it was as the constructor left it), so that
\* what the room serves for a key never goes back behind a write it has served.
C21_NoOlderValueFromStorage ==
    [][(LoadReplaces /\ eyes' # eyes0) => eyes = eyes0]_vars

\* C23 (persistence failure), its response: a PUT or DELETE whose persist
\* fails is not answered with a success status.
FailedWriteNotAcked ==
    [][/\ \A p \in BagToSet(puts) : fetchPutFinish(p, FALSE) =>
              (p.eye = watch => ~resOk(resp'[1].res))
       /\ \A ep \in EyeParams : fetchDelete(ep, FALSE) =>
              (eyeOf(ep) = watch => ~resOk(resp'[1].res))]_vars
\* C23, its frame: the content and tag the room serves for the key after the
\* failed write are those it served before.
FailedWriteChangesNothing ==
    [][/\ \A p \in BagToSet(puts) : fetchPutFinish(p, FALSE) =>
              Served(eyes', storage')[p.eye] = Served(eyes, storage)[p.eye]
       /\ \A ep \in EyeParams : fetchDelete(ep, FALSE) =>
              Served(eyes', storage')[eyeOf(ep)] = Served(eyes, storage)[eyeOf(ep)]]_vars
\* C23, its consequence: the room never serves a value that is not persisted.
ServedIsPersisted ==
    Served(eyes, storage) = IF storage = Null THEN Strip(eyes0) ELSE Strip(storage[1])
\* C23 (persistence failure is not acknowledged and changes nothing): the three
\* parts above together.
C23_FailedPersistChangesNothing ==
    FailedWriteNotAcked /\ FailedWriteChangesNothing /\ []ServedIsPersisted

\* The pending timeouts of a key, in a set of timeouts.
Outstanding(pending, e) == {t \in pending : t.eye = e}

\* C22 (one debounce timer per key): in every state each key has at most one
\* pending timeout; and a scheduleSave of a key (pointerup or pointercancel)
\* leaves exactly one for that key, the one whose handle the key then holds,
\* and leaves the other key's handle and pending timeout as they were.
C22_OneTimerPerKey ==
    /\ [](\A e \in Eye : Cardinality(Outstanding(timeouts, e)) <= 1)
    /\ [][\A e \in Eye : onUpCancel(e) =>
              /\ Cardinality(Outstanding(timeouts', e)) = 1
              /\ \A t \in Outstanding(timeouts', e) : timers'[e] = Some(t.id)
              /\ \A x \in Eye \ {e} :
                    /\ timers'[x] = timers[x]
                    /\ Outstanding(timeouts', x) = Outstanding(timeouts, x)]_vars
\* Both keys have a timer armed, the left one's armed again after an earlier
\* one of that key has fired (its push callback is under way).
C22_Witness ==
    /\ \A e \in Eye : Cardinality(Outstanding(timeouts, e)) = 1
    /\ timers["right"] = Some(2) /\ timers["left"] = Some(1)
    /\ Pushing("left") > 0

\* C24 (no local edit is marked clean without being pushed): when the 2xx
\* response of a push marks a key clean, the content of the key's canvas is
\* the content that was pushed: its hash is lastKnownTag.
C24_CleanMeansPushed ==
    Did("pushed") =>
        (~isDirty(ev[1].eye) => Some(hashBlob(exportPNG(canvas[ev[1].eye]))) = etag[ev[1].eye])

\* Nothing asynchronous of the key is under way: no push callback, poll, pull
\* or clear.
Quiet(e) == \A o \in BagToSet(ops) : o.eye # e

\* C25 (cache coherence of the client): in every state in which a key is clean
\* and nothing of it is in flight, a lastKnownTag that is not null is the hash
\* of the content the key's canvas holds.
C25_CacheCoherence ==
    \A e \in Eye :
        (~isDirty(e) /\ Quiet(e) /\ etag[e] # Null)
            => etag[e] = Some(hashBlob(exportPNG(canvas[e])))

\* A step that changes the room's value or makes a request fail.
Disturbs ==
    \/ \E buf \in RemoteBodies : otherPut(watch, buf)
    \/ otherDelete(watch)
    \/ \E o \in BagToSet(ops) : roomUnavailable(o)
    \/ \E o \in BagToSet(ops) : fetchRejected(o)
\* The session holds the room's value of the key: the image stored, or a
\* cleared canvas when nothing is stored.
Converged ==
    LET s == loadGuard(eyes, storage)[watch]
    IN  IF s.bytes = Null THEN canvas[watch] = Blank
        ELSE createImageBitmap(s.bytes[1]) = Some(canvas[watch])

\* C26 (convergence): if from some point on the room's value of the key no
\* longer changes and no request fails (no local change is made at all here),
\* then from some point on the session holds the room's value.
C26_Convergence ==
    <>[][~Disturbs]_vars => <>[]Converged

====
